---- MODULE Spec2Model ----
(***************************************************************************)
(* Compatibility and ranking engine of whatmodels (calculations.js):       *)
(* calcOffloadConfig, calcOffloadPenalty, calcMaxContext,                  *)
(* calcMaxContextWithOffload, calcTokPerSec and bucketModels.              *)
(*                                                                         *)
(* Numbers.  JavaScript numbers are modelled exactly:                      *)
(*   - an amount of memory (weight_gb, kv_per_1k_gb, vram, systemRamGB,    *)
(*     gpuWeightGB, ramWeightGB) is an integer counting 1/GBUnits GB;      *)
(*   - a fraction (offloadRatio, the penalty, speedMultiplier) is a        *)
(*     reduced rational [n |-> numerator, d |-> denominator], d > 0;       *)
(*   - bandwidth (GB/s), contexts (K tokens), tok/s and scores are         *)
(*     integers.                                                           *)
(* Binary floating point rounding error is not modelled.                   *)
(* null / undefined of a numeric value is Null; a field that is absent     *)
(* from a JavaScript object is absent from the record.                     *)
(***************************************************************************)
EXTENDS Integers, Sequences, FiniteSets, TLC

\* ------------------------------------------------------------------ bounds
\* Resolution of memory amounts: one unit is 1/GBUnits GB.
GBUnits == 2
\* vram ranges over 0..MaxVram units.
MaxVram == 10
\* weight_gb of the generated single-model catalogs ranges over 1..MaxWeight units.
MaxWeight == 6
\* Largest systemRamGB, in units.
MaxSystemRam == 6
\* Longest catalog drawn from the fixture models.
MaxModels == 2
\* The number of identical GPUs ranges over 1..MaxQuantity.
MaxQuantity == 8
\* Benchmark scores of the scored single-model catalogs range over 0..MaxScore.
MaxScore == 100
\* Longest list given to groupVariants.
MaxEntries == 3
\* Bandwidths given to calcTokPerSec directly range over 0..MaxBandwidth GB/s.
MaxBandwidth == 12
\* Offload ratios given to calcOffloadPenalty directly are n/d, d in 1..MaxDen,
\* and the finer n/FineDen.
MaxDen == 8
FineDen == 50

Null == 0 - 1

\* --------------------------------------------------------------- rationals
RECURSIVE Gcd(_, _)
Gcd(a, b) == IF b = 0 THEN a ELSE Gcd(b, a % b)

Abs(x) == IF x < 0 THEN 0 - x ELSE x

\* The reduced fraction n/d (d > 0).
Rat(n, d) ==
  LET g == Gcd(Abs(n), d)
  IN  [n |-> n \div g, d |-> d \div g]

RAdd(a, b) == Rat(a.n * b.d + b.n * a.d, a.d * b.d)
RSub(a, b) == Rat(a.n * b.d - b.n * a.d, a.d * b.d)
RMul(a, b) == Rat(a.n * b.n, a.d * b.d)
RLe(a, b) == a.n * b.d <= b.n * a.d
RLt(a, b) == a.n * b.d < b.n * a.d
RMin(a, b) == IF RLe(a, b) THEN a ELSE b

\* Math.floor and Math.round (halves up) of the quotient n/d, d > 0.
FloorDiv(n, d) == n \div d
RoundDiv(n, d) == (2 * n + d) \div (2 * d)

Min(a, b) == IF a <= b THEN a ELSE b
Max(a, b) == IF a >= b THEN a ELSE b

\* --------------------------------------------------------------- constants
INFERENCE_OVERHEAD_GB == 1 * GBUnits
TIGHT_FIT_CONTEXT_K == 4
MAX_OFFLOAD_RATIO == Rat(1, 2)

\* ---------------------------------------------------------- pure functions
\* Mutant of calcMultiGpuResources: three GPUs get the efficiency of four.
calcMultiGpuResources_ThreeAsFour(vram, bandwidth, quantity) ==
  IF quantity = 1 \/ quantity = Null THEN [vram |-> vram, bandwidth |-> bandwidth]
  ELSE IF bandwidth = Null THEN [vram |-> vram * quantity, bandwidth |-> Null]
  ELSE LET efficiency == IF quantity = 2 THEN Rat(85, 100) ELSE Rat(70, 100)
       IN  [vram |-> vram * quantity,
            bandwidth |-> RoundDiv(bandwidth * quantity * efficiency.n, efficiency.d)]

calcMultiGpuResources(vram, bandwidth, quantity) ==
  IF quantity = 1 \/ quantity = Null THEN [vram |-> vram, bandwidth |-> bandwidth]
  ELSE LET totalVram == vram * quantity
           efficiency == IF quantity = 2 THEN Rat(85, 100)
                         ELSE IF quantity = 3 THEN Rat(75, 100)
                         ELSE Rat(70, 100)
           effectiveBandwidth == RoundDiv(bandwidth * quantity * efficiency.n, efficiency.d)
       IN  IF bandwidth = Null THEN [vram |-> totalVram, bandwidth |-> Null]
           ELSE [vram |-> totalVram, bandwidth |-> effectiveBandwidth]

\* Mutant of calcMaxContext: VRAM equal to the weights counts as room for KV.
calcMaxContext_StrictGuard(model, userVram) ==
  LET availableForKv == userVram - model.weight_gb
  IN  IF availableForKv < 0 THEN 0
      ELSE IF model.kv_per_1k_gb <= 0 THEN model.max_context_k
      ELSE Min(FloorDiv(availableForKv, model.kv_per_1k_gb), model.max_context_k)

calcMaxContext(model, userVram) ==
  LET availableForKv == userVram - model.weight_gb
  IN  IF availableForKv <= 0 THEN 0
      ELSE IF model.kv_per_1k_gb <= 0 THEN model.max_context_k
      ELSE Min(FloorDiv(availableForKv, model.kv_per_1k_gb), model.max_context_k)

\* Mutant of calcTokPerSec: the quotient is rounded down.
calcTokPerSec_Floor(model, bandwidth) ==
  IF bandwidth = Null THEN Null
  ELSE FloorDiv(bandwidth * GBUnits, model.weight_gb + INFERENCE_OVERHEAD_GB)

\* Mutant of calcTokPerSec: an unknown bandwidth is taken as 0.
calcTokPerSec_NullAsZero(model, bandwidth) ==
  RoundDiv((IF bandwidth = Null THEN 0 ELSE bandwidth) * GBUnits,
           model.weight_gb + INFERENCE_OVERHEAD_GB)

\* bandwidth is in GB/s, the weight in units: bandwidth / (weight_gb + 1.0).
calcTokPerSec(model, bandwidth) ==
  IF bandwidth = Null THEN Null
  ELSE RoundDiv(bandwidth * GBUnits, model.weight_gb + INFERENCE_OVERHEAD_GB)

\* Mutant of calcMaxContextWithOffload: the total is not capped at max_context_k.
calcMaxContextWithOffload_NoCap(model, vram, systemRamGB) ==
  LET availableForKv == vram - model.weight_gb
      vramCtxK == FloorDiv(availableForKv, model.kv_per_1k_gb)
      capped == Min(vramCtxK, model.max_context_k)
      ramCtxK == FloorDiv(systemRamGB, model.kv_per_1k_gb)
      totalCtxK == vramCtxK + ramCtxK
  IN  IF availableForKv <= 0
        THEN [maxCtxK |-> 0, vramCtxK |-> 0, ramCtxK |-> 0, usingSystemRam |-> FALSE]
      ELSE IF model.kv_per_1k_gb <= 0
        THEN [maxCtxK |-> model.max_context_k, vramCtxK |-> model.max_context_k,
              ramCtxK |-> 0, usingSystemRam |-> FALSE]
      ELSE IF systemRamGB = Null
        THEN [maxCtxK |-> capped, vramCtxK |-> capped, ramCtxK |-> 0,
              usingSystemRam |-> FALSE]
      ELSE [maxCtxK |-> totalCtxK, vramCtxK |-> vramCtxK,
            ramCtxK |-> ramCtxK, usingSystemRam |-> ramCtxK > 0]

\* Mutant of calcMaxContextWithOffload: without system RAM the VRAM-only
\* context is not capped at max_context_k.
calcMaxContextWithOffload_NullUncapped(model, vram, systemRamGB) ==
  LET availableForKv == vram - model.weight_gb
      vramCtxK == FloorDiv(availableForKv, model.kv_per_1k_gb)
      ramCtxK == FloorDiv(systemRamGB, model.kv_per_1k_gb)
      totalCtxK == Min(vramCtxK + ramCtxK, model.max_context_k)
      actualRamCtxK == totalCtxK - Min(vramCtxK, totalCtxK)
  IN  IF availableForKv <= 0
        THEN [maxCtxK |-> 0, vramCtxK |-> 0, ramCtxK |-> 0, usingSystemRam |-> FALSE]
      ELSE IF model.kv_per_1k_gb <= 0
        THEN [maxCtxK |-> model.max_context_k, vramCtxK |-> model.max_context_k,
              ramCtxK |-> 0, usingSystemRam |-> FALSE]
      ELSE IF systemRamGB = Null
        THEN [maxCtxK |-> vramCtxK, vramCtxK |-> vramCtxK, ramCtxK |-> 0,
              usingSystemRam |-> FALSE]
      ELSE [maxCtxK |-> totalCtxK, vramCtxK |-> Min(vramCtxK, totalCtxK),
            ramCtxK |-> actualRamCtxK, usingSystemRam |-> actualRamCtxK > 0]

\* Mutant of calcMaxContextWithOffload: the RAM contribution reported is what
\* system RAM could hold, not what is used.
calcMaxContextWithOffload_FullRam(model, vram, systemRamGB) ==
  LET availableForKv == vram - model.weight_gb
      vramCtxK == FloorDiv(availableForKv, model.kv_per_1k_gb)
      capped == Min(vramCtxK, model.max_context_k)
      ramCtxK == FloorDiv(systemRamGB, model.kv_per_1k_gb)
      totalCtxK == Min(vramCtxK + ramCtxK, model.max_context_k)
  IN  IF availableForKv <= 0
        THEN [maxCtxK |-> 0, vramCtxK |-> 0, ramCtxK |-> 0, usingSystemRam |-> FALSE]
      ELSE IF model.kv_per_1k_gb <= 0
        THEN [maxCtxK |-> model.max_context_k, vramCtxK |-> model.max_context_k,
              ramCtxK |-> 0, usingSystemRam |-> FALSE]
      ELSE IF systemRamGB = Null
        THEN [maxCtxK |-> capped, vramCtxK |-> capped, ramCtxK |-> 0,
              usingSystemRam |-> FALSE]
      ELSE [maxCtxK |-> totalCtxK, vramCtxK |-> Min(vramCtxK, totalCtxK),
            ramCtxK |-> ramCtxK, usingSystemRam |-> ramCtxK > 0]

calcMaxContextWithOffload(model, vram, systemRamGB) ==
  LET availableForKv == vram - model.weight_gb
      vramCtxK == FloorDiv(availableForKv, model.kv_per_1k_gb)
      capped == Min(vramCtxK, model.max_context_k)
      ramCtxK == FloorDiv(systemRamGB, model.kv_per_1k_gb)
      totalCtxK == Min(vramCtxK + ramCtxK, model.max_context_k)
      actualRamCtxK == totalCtxK - Min(vramCtxK, totalCtxK)
  IN  IF availableForKv <= 0
        THEN [maxCtxK |-> 0, vramCtxK |-> 0, ramCtxK |-> 0, usingSystemRam |-> FALSE]
      ELSE IF model.kv_per_1k_gb <= 0
        THEN [maxCtxK |-> model.max_context_k, vramCtxK |-> model.max_context_k,
              ramCtxK |-> 0, usingSystemRam |-> FALSE]
      ELSE IF systemRamGB = Null
        THEN [maxCtxK |-> capped, vramCtxK |-> capped, ramCtxK |-> 0,
              usingSystemRam |-> FALSE]
      ELSE [maxCtxK |-> totalCtxK, vramCtxK |-> Min(vramCtxK, totalCtxK),
            ramCtxK |-> actualRamCtxK, usingSystemRam |-> actualRamCtxK > 0]

\* Mutant of calcOffloadConfig: the check of the system RAM size is missing.
calcOffloadConfig_NoRamCheck(model, vram, systemRamGB) ==
  LET availableForWeights == vram - INFERENCE_OVERHEAD_GB
      ramWeightGB == model.weight_gb - Max(availableForWeights, 0)
      offloadRatio == Rat(ramWeightGB, model.weight_gb)
  IN  IF model.weight_gb <= availableForWeights
        THEN [feasible |-> TRUE, gpuWeightGB |-> model.weight_gb, ramWeightGB |-> 0,
              offloadRatio |-> Rat(0, 1), estimatedLayers |-> 0]
      ELSE IF systemRamGB = Null THEN [feasible |-> FALSE]
      ELSE IF RLt(MAX_OFFLOAD_RATIO, offloadRatio) THEN [feasible |-> FALSE]
      ELSE [feasible |-> TRUE,
            gpuWeightGB |-> Max(availableForWeights, 0),
            ramWeightGB |-> ramWeightGB,
            offloadRatio |-> offloadRatio,
            estimatedLayers |-> 0]

\* An infeasible plan is { feasible: false }: the other fields are absent.
calcOffloadConfig(model, vram, systemRamGB) ==
  LET reserveForKV == INFERENCE_OVERHEAD_GB
      availableForWeights == vram - reserveForKV
      ramWeightGB == model.weight_gb - Max(availableForWeights, 0)
      offloadRatio == Rat(ramWeightGB, model.weight_gb)
  IN  IF model.weight_gb <= availableForWeights
        THEN [feasible |-> TRUE, gpuWeightGB |-> model.weight_gb, ramWeightGB |-> 0,
              offloadRatio |-> Rat(0, 1), estimatedLayers |-> 0]
      ELSE IF systemRamGB = Null THEN [feasible |-> FALSE]
      ELSE IF RLt(MAX_OFFLOAD_RATIO, offloadRatio) \/ ramWeightGB > systemRamGB
        THEN [feasible |-> FALSE]
      ELSE [feasible |-> TRUE,
            gpuWeightGB |-> Max(availableForWeights, 0),
            ramWeightGB |-> ramWeightGB,
            offloadRatio |-> offloadRatio,
            estimatedLayers |->
              RoundDiv(offloadRatio.n * (IF "layers" \in DOMAIN model THEN model.layers ELSE 0),
                       offloadRatio.d)]

\* The bandwidth adjustment of a base penalty.
BandwidthAdjusted(base, bandwidth, mid, high) ==
  IF bandwidth # Null
    THEN IF bandwidth < mid THEN RMul(base, Rat(80, 100))
         ELSE IF bandwidth < high THEN RMul(base, Rat(90, 100))
         ELSE base
    ELSE base

\* Mutant of OffloadPenaltyValue: the base penalty starts at 10%.
OffloadPenaltyValue_LowBase(offloadRatio, bandwidth) ==
  RMin(BandwidthAdjusted(RAdd(Rat(10, 100), RMul(offloadRatio, Rat(70, 100))),
                         bandwidth, 400, 700),
       Rat(50, 100))

\* Mutant of OffloadPenaltyValue: the 50% cap is missing.
OffloadPenaltyValue_NoCap(offloadRatio, bandwidth) ==
  BandwidthAdjusted(RAdd(Rat(15, 100), RMul(offloadRatio, Rat(70, 100))),
                    bandwidth, 400, 700)

\* Mutant of OffloadPenaltyValue: a bandwidth of exactly 700 GB/s counts as
\* the middle tier.
OffloadPenaltyValue_Tier(offloadRatio, bandwidth) ==
  RMin(BandwidthAdjusted(RAdd(Rat(15, 100), RMul(offloadRatio, Rat(70, 100))),
                         bandwidth, 400, 701),
       Rat(50, 100))

\* The penalty itself (the local variable `penalty` at the return statement).
OffloadPenaltyValue(offloadRatio, bandwidth) ==
  LET base == RAdd(Rat(15, 100), RMul(offloadRatio, Rat(70, 100)))
      adjusted ==
        IF bandwidth # Null
          THEN IF bandwidth < 400 THEN RMul(base, Rat(80, 100))
               ELSE IF bandwidth < 700 THEN RMul(base, Rat(90, 100))
               ELSE base
          ELSE base
  IN  RMin(adjusted, Rat(50, 100))

calcOffloadPenalty(offloadRatio, bandwidth) ==
  IF RLe(offloadRatio, Rat(0, 1))
    THEN [penaltyPercent |-> 0, speedMultiplier |-> Rat(1, 1)]
    ELSE LET penalty == OffloadPenaltyValue(offloadRatio, bandwidth)
         IN  [penaltyPercent |-> RoundDiv(penalty.n * 100, penalty.d),
              speedMultiplier |-> RSub(Rat(1, 1), penalty)]

qualityTier(score) ==
  IF score >= 83 THEN [label |-> "Excellent", cls |-> "tier-excellent"]
  ELSE IF score >= 75 THEN [label |-> "Great", cls |-> "tier-great"]
  ELSE IF score >= 67 THEN [label |-> "Good", cls |-> "tier-good"]
  ELSE IF score >= 55 THEN [label |-> "Fair", cls |-> "tier-fair"]
  ELSE [label |-> "Basic", cls |-> "tier-basic"]

codingQualityTier(score) ==
  IF score = Null THEN [label |-> "N/A", cls |-> "tier-na"]
  ELSE IF score >= 30 THEN [label |-> "Excellent", cls |-> "tier-excellent"]
  ELSE IF score >= 22 THEN [label |-> "Great", cls |-> "tier-great"]
  ELSE IF score >= 15 THEN [label |-> "Good", cls |-> "tier-good"]
  ELSE IF score >= 8 THEN [label |-> "Fair", cls |-> "tier-fair"]
  ELSE [label |-> "Basic", cls |-> "tier-basic"]

compareScores(a, b) ==
  IF a = Null /\ b = Null THEN 0
  ELSE IF a = Null THEN 1
  ELSE IF b = Null THEN 0 - 1
  ELSE b - a

\* m.swe_bench_score, null when the field is absent or null.
SweScore(m) == IF "swe_bench_score" \in DOMAIN m THEN m.swe_bench_score ELSE Null

\* A null offloadInfo / ctxInfo.
NullInfo == [type |-> "null"]

\* ------------------------------------------------------------ bucketModels
\* Evaluation note: a value that the code binds once and reads several times
\* is passed on as an operator parameter.

\* Mutant of FitsInVram: the 1K of context is not counted.
FitsInVram_WeightsOnly(m, vram) == vram >= m.weight_gb

\* The basic check: weights plus 1K of context fit in VRAM.
FitsInVram(m, vram) ==
  LET totalAtMinCtx == m.weight_gb + m.kv_per_1k_gb
  IN  vram >= totalAtMinCtx

\* The offloadInfo object built from a feasible plan and its penalty.
OffloadInfoRecord(offload, penalty) ==
  [type |-> "weights",
   gpuWeightGB |-> offload.gpuWeightGB,
   ramWeightGB |-> offload.ramWeightGB,
   offloadRatio |-> offload.offloadRatio,
   estimatedLayers |-> offload.estimatedLayers,
   penaltyPercent |-> penalty.penaltyPercent,
   speedMultiplier |-> penalty.speedMultiplier]

\* if (offload.feasible && offload.offloadRatio > 0) { offloadInfo = ... }
OffloadInfoFromPlan(offload, bandwidth) ==
  IF offload.feasible /\ RLt(Rat(0, 1), offload.offloadRatio)
    THEN OffloadInfoRecord(offload, calcOffloadPenalty(offload.offloadRatio, bandwidth))
    ELSE NullInfo

\* Mutant of OffloadInfoOf: offloading is tried for models that fit in VRAM too.
OffloadInfoOf_Always(m, vram, bandwidth, systemRamGB) ==
  IF systemRamGB # Null
    THEN OffloadInfoFromPlan(calcOffloadConfig(m, vram, systemRamGB), bandwidth)
    ELSE NullInfo

\* The offloadInfo of model m: weight offloading is tried when the model does
\* not fit in VRAM and system RAM is given.
OffloadInfoOf(m, vram, bandwidth, systemRamGB) ==
  IF ~FitsInVram(m, vram) /\ systemRamGB # Null
    THEN OffloadInfoFromPlan(calcOffloadConfig(m, vram, systemRamGB), bandwidth)
    ELSE NullInfo

\* Mutant of MaxCtxOf: beside offloaded weights the overhead is not taken off
\* the VRAM left for KV.
MaxCtxOf_NoOverhead(m, vram, systemRamGB, weightsAvailable, offloadInfo) ==
  IF weightsAvailable /\ offloadInfo = NullInfo /\ systemRamGB # Null
    THEN calcMaxContextWithOffload(m, vram, systemRamGB).maxCtxK
  ELSE IF offloadInfo # NullInfo
    THEN LET vramForKv == Max(vram - offloadInfo.gpuWeightGB, 0)
         IN  IF m.kv_per_1k_gb > 0
               THEN Min(FloorDiv(vramForKv, m.kv_per_1k_gb), m.max_context_k)
               ELSE m.max_context_k
  ELSE calcMaxContext(m, vram)

\* Mutant of MaxCtxOf: with system RAM, only the context held in system RAM
\* counts.
MaxCtxOf_RamOnly(m, vram, systemRamGB, weightsAvailable, offloadInfo) ==
  IF weightsAvailable /\ offloadInfo = NullInfo /\ systemRamGB # Null
    THEN calcMaxContextWithOffload(m, vram, systemRamGB).ramCtxK
  ELSE IF offloadInfo # NullInfo
    THEN LET vramForKv == Max(vram - offloadInfo.gpuWeightGB - INFERENCE_OVERHEAD_GB, 0)
         IN  IF m.kv_per_1k_gb > 0
               THEN Min(FloorDiv(vramForKv, m.kv_per_1k_gb), m.max_context_k)
               ELSE m.max_context_k
  ELSE calcMaxContext(m, vram)

\* maxCtxK: extended by system RAM, on the VRAM left beside offloaded
\* weights, or VRAM-only.
MaxCtxOf(m, vram, systemRamGB, weightsAvailable, offloadInfo) ==
  IF weightsAvailable /\ offloadInfo = NullInfo /\ systemRamGB # Null
    THEN calcMaxContextWithOffload(m, vram, systemRamGB).maxCtxK
  ELSE IF offloadInfo # NullInfo
    THEN LET vramForKv == Max(vram - offloadInfo.gpuWeightGB - INFERENCE_OVERHEAD_GB, 0)
         IN  IF m.kv_per_1k_gb > 0
               THEN Min(FloorDiv(vramForKv, m.kv_per_1k_gb), m.max_context_k)
               ELSE m.max_context_k
  ELSE calcMaxContext(m, vram)

\* Mutant of CtxInfoFrom: the breakdown is attached whether or not system RAM
\* is used.
CtxInfoFrom_Always(extended) ==
  [vramCtxK |-> extended.vramCtxK, ramCtxK |-> extended.ramCtxK]

\* if (extended.usingSystemRam) { ctxInfo = ... }
CtxInfoFrom(extended) ==
  IF extended.usingSystemRam
    THEN [vramCtxK |-> extended.vramCtxK, ramCtxK |-> extended.ramCtxK]
    ELSE NullInfo

CtxInfoOf(m, vram, systemRamGB, weightsAvailable, offloadInfo) ==
  IF weightsAvailable /\ offloadInfo = NullInfo /\ systemRamGB # Null
    THEN CtxInfoFrom(calcMaxContextWithOffload(m, vram, systemRamGB))
    ELSE NullInfo

\* Mutant of TokPerSecOf: the offload penalty is not applied.
TokPerSecOf_NoPenalty(tokPerSec, offloadInfo) == tokPerSec

\* Speed: the offload penalty is applied when the speed is known.
TokPerSecOf(tokPerSec, offloadInfo) ==
  IF tokPerSec # Null /\ offloadInfo # NullInfo
    THEN RoundDiv(tokPerSec * offloadInfo.speedMultiplier.n, offloadInfo.speedMultiplier.d)
    ELSE tokPerSec

\* Mutant of MeetsFeatures: one required feature is enough.
MeetsFeatures_Some(m, requiredFeatures) ==
  LET modelFeatures == IF "features" \in DOMAIN m THEN m.features ELSE {}
  IN  IF Cardinality(requiredFeatures) > 0
        THEN \E f \in requiredFeatures : f \in modelFeatures
        ELSE TRUE

MeetsFeatures(m, requiredFeatures) ==
  LET modelFeatures == IF "features" \in DOMAIN m THEN m.features ELSE {}
  IN  IF Cardinality(requiredFeatures) > 0
        THEN \A f \in requiredFeatures : f \in modelFeatures
        ELSE TRUE

\* Mutant of TierOf: a model without a coding score gets its general tier.
TierOf_GeneralFallback(m, sortBy) ==
  IF sortBy = "swe-bench" /\ SweScore(m) # Null THEN codingQualityTier(SweScore(m))
  ELSE qualityTier(m.mmlu_score)

TierOf(m, sortBy) ==
  IF sortBy = "swe-bench" THEN codingQualityTier(SweScore(m))
  ELSE qualityTier(m.mmlu_score)

\* Mutant of EnrichedEntry: the coding selector raises the minimum context to
\* 64K.
EnrichedEntry_CodingMinCtx(m, minContextK, minTokPerSec, requiredFeatures, sortBy, weightsAvailable, offloadInfo, maxCtxK, ctxInfo, tokPerSec) ==
  LET effectiveMinCtx == IF sortBy = "swe-bench" THEN Max(minContextK, 64) ELSE minContextK
  IN  [maxCtxK |-> maxCtxK,
       fitsAtAll |-> weightsAvailable,
       meetsMinCtx |-> IF effectiveMinCtx # Null THEN maxCtxK >= effectiveMinCtx ELSE TRUE,
       meetsMinSpeed |->
         IF minTokPerSec # Null /\ tokPerSec # Null THEN tokPerSec >= minTokPerSec ELSE TRUE,
       meetsFeatures |-> MeetsFeatures(m, requiredFeatures),
       modelSupportsCtx |->
         IF effectiveMinCtx # Null THEN m.max_context_k >= effectiveMinCtx ELSE TRUE,
       tokPerSec |-> tokPerSec,
       tier |-> TierOf(m, sortBy),
       offloadInfo |-> offloadInfo,
       ctxInfo |-> ctxInfo] @@ m

\* The object the callback returns: { ...m, maxCtxK, fitsAtAll, ... }.
EnrichedEntry(m, minContextK, minTokPerSec, requiredFeatures, sortBy, weightsAvailable, offloadInfo, maxCtxK, ctxInfo, tokPerSec) ==
  LET effectiveMinCtx == minContextK
  IN  [maxCtxK |-> maxCtxK,
       fitsAtAll |-> weightsAvailable,
       meetsMinCtx |-> IF effectiveMinCtx # Null THEN maxCtxK >= effectiveMinCtx ELSE TRUE,
       meetsMinSpeed |->
         IF minTokPerSec # Null /\ tokPerSec # Null THEN tokPerSec >= minTokPerSec ELSE TRUE,
       meetsFeatures |-> MeetsFeatures(m, requiredFeatures),
       modelSupportsCtx |->
         IF effectiveMinCtx # Null THEN m.max_context_k >= effectiveMinCtx ELSE TRUE,
       tokPerSec |-> tokPerSec,
       tier |-> TierOf(m, sortBy),
       offloadInfo |-> offloadInfo,
       ctxInfo |-> ctxInfo] @@ m

EnrichWith(m, vram, bandwidth, minContextK, minTokPerSec, requiredFeatures, sortBy, systemRamGB, weightsAvailable, offloadInfo) ==
  EnrichedEntry(m, minContextK, minTokPerSec, requiredFeatures, sortBy, weightsAvailable,
                offloadInfo,
                MaxCtxOf(m, vram, systemRamGB, weightsAvailable, offloadInfo),
                CtxInfoOf(m, vram, systemRamGB, weightsAvailable, offloadInfo),
                TokPerSecOf(calcTokPerSec(m, bandwidth), offloadInfo))

WeightsAvailable(fitsInVram, offloadInfo) == fitsInVram \/ offloadInfo # NullInfo

EnrichOffload(m, vram, bandwidth, minContextK, minTokPerSec, requiredFeatures, sortBy, systemRamGB, offloadInfo) ==
  EnrichWith(m, vram, bandwidth, minContextK, minTokPerSec, requiredFeatures, sortBy,
             systemRamGB, WeightsAvailable(FitsInVram(m, vram), offloadInfo), offloadInfo)

\* The callback of allModels.map: the enriched entry of model m.
Enrich(m, vram, bandwidth, minContextK, minTokPerSec, requiredFeatures, sortBy, systemRamGB) ==
  EnrichOffload(m, vram, bandwidth, minContextK, minTokPerSec, requiredFeatures, sortBy,
                systemRamGB, OffloadInfoOf(m, vram, bandwidth, systemRamGB))

\* Mutant of BucketOf: the architectural context check is missing.
BucketOf_NoCtxGate(e) ==
  IF ~e.fitsAtAll THEN "noFit"
  ELSE IF e.offloadInfo # NullInfo THEN "tight"
  ELSE IF ~e.meetsMinCtx \/ ~e.meetsMinSpeed \/ ~e.meetsFeatures THEN "tight"
  ELSE IF e.maxCtxK < TIGHT_FIT_CONTEXT_K THEN "tight"
  ELSE "fits"

\* Mutant of BucketOf: an offloaded entry is bucketed like any other.
BucketOf_OffloadFits(e) ==
  IF ~e.fitsAtAll \/ ~e.modelSupportsCtx THEN "noFit"
  ELSE IF ~e.meetsMinCtx \/ ~e.meetsMinSpeed \/ ~e.meetsFeatures THEN "tight"
  ELSE IF e.maxCtxK < TIGHT_FIT_CONTEXT_K THEN "tight"
  ELSE "fits"

\* Mutant of BucketOf: the minimum speed is not checked.
BucketOf_NoSpeedCheck(e) ==
  IF ~e.fitsAtAll \/ ~e.modelSupportsCtx THEN "noFit"
  ELSE IF e.offloadInfo # NullInfo THEN "tight"
  ELSE IF ~e.meetsMinCtx \/ ~e.meetsFeatures THEN "tight"
  ELSE IF e.maxCtxK < TIGHT_FIT_CONTEXT_K THEN "tight"
  ELSE "fits"

\* The bucket the partition loop pushes entry e to.
BucketOf(e) ==
  IF ~e.fitsAtAll \/ ~e.modelSupportsCtx THEN "noFit"
  ELSE IF e.offloadInfo # NullInfo THEN "tight"
  ELSE IF ~e.meetsMinCtx \/ ~e.meetsMinSpeed \/ ~e.meetsFeatures THEN "tight"
  ELSE IF e.maxCtxK < TIGHT_FIT_CONTEXT_K THEN "tight"
  ELSE "fits"

\* a || b of two numbers.
OrElse(a, b) == IF a # 0 THEN a ELSE b

\* Mutant of SortFn: the tiebreak is missing.
SortFn_NoTiebreak(sortBy, bucket, a, b) ==
  IF sortBy = "swe-bench"
    THEN compareScores(SweScore(a), SweScore(b))
    ELSE b.mmlu_score - a.mmlu_score

\* The comparator bucketModels sorts bucket `bucket` with.
SortFn(sortBy, bucket, a, b) ==
  LET tiebreak == IF bucket = "noFit" THEN b.weight_gb - a.weight_gb
                  ELSE b.maxCtxK - a.maxCtxK
  IN  IF sortBy = "swe-bench"
        THEN OrElse(compareScores(SweScore(a), SweScore(b)), tiebreak)
        ELSE OrElse(b.mmlu_score - a.mmlu_score, tiebreak)

\* Array.prototype.sort: a stable sort by the comparator.
RECURSIVE SortInsert(_, _, _, _)
SortInsert(e, s, sortBy, bucket) ==
  IF Len(s) = 0 THEN <<e>>
  ELSE IF SortFn(sortBy, bucket, Head(s), e) <= 0
    THEN <<Head(s)>> \o SortInsert(e, Tail(s), sortBy, bucket)
  ELSE <<e>> \o s

RECURSIVE SortBucket(_, _, _)
SortBucket(s, sortBy, bucket) ==
  IF Len(s) = 0 THEN <<>>
  ELSE SortInsert(s[Len(s)], SortBucket(SubSeq(s, 1, Len(s) - 1), sortBy, bucket),
                  sortBy, bucket)

InFits(e) == BucketOf(e) = "fits"
\* Mutant of InTight: every entry that is not in noFit is pushed to tight.
InTight_AlsoFits(e) == BucketOf(e) # "noFit"

InTight(e) == BucketOf(e) = "tight"
InNoFit(e) == BucketOf(e) = "noFit"

\* The partition loop and the three sorts.
Partition(entries, sortBy) ==
  [fits |-> SortBucket(SelectSeq(entries, InFits), sortBy, "fits"),
   tight |-> SortBucket(SelectSeq(entries, InTight), sortBy, "tight"),
   noFit |-> SortBucket(SelectSeq(entries, InNoFit), sortBy, "noFit")]

bucketModels(allModels, vram, bandwidth, minContextK, minTokPerSec, requiredFeatures, sortBy, systemRamGB) ==
  Partition([i \in 1..Len(allModels) |->
               Enrich(allModels[i], vram, bandwidth, minContextK, minTokPerSec,
                      requiredFeatures, sortBy, systemRamGB)],
            sortBy)

\* ----------------------------------------------------------- groupVariants
\* The group object made for the first entry of a name.
NewGroup(m) ==
  [name |-> m.name,
   params_b |-> m.params_b,
   tier |-> m.tier,
   mmlu_score |-> m.mmlu_score,
   swe_bench_score |-> SweScore(m),
   features |-> IF "features" \in DOMAIN m THEN m.features ELSE {},
   variants |-> <<m>>]

\* seen.has(name): the groups made so far whose name it is.
SeenAt(groups, name) == {i \in 1..Len(groups) : groups[i].name = name}

\* Mutant of PushVariant: the entry takes the place of the group's variants.
PushVariant_Replace(groups, i, m) == [groups EXCEPT ![i].variants = <<m>>]

\* seen.get(m.name).variants.push(m)
PushVariant(groups, i, m) == [groups EXCEPT ![i].variants = Append(@, m)]

\* The first loop: for (const m of models) { ... }
RECURSIVE GroupLoop(_, _)
GroupLoop(models, groups) ==
  IF Len(models) = 0 THEN groups
  ELSE IF SeenAt(groups, Head(models).name) # {}
    THEN GroupLoop(Tail(models),
                   PushVariant(groups, CHOOSE i \in SeenAt(groups, Head(models).name) : TRUE,
                               Head(models)))
  ELSE GroupLoop(Tail(models), Append(groups, NewGroup(Head(models))))

\* g.variants.sort((a, b) => a.weight_gb - b.weight_gb): a stable sort.
RECURSIVE VariantInsert(_, _)
VariantInsert(e, s) ==
  IF Len(s) = 0 THEN <<e>>
  ELSE IF Head(s).weight_gb - e.weight_gb <= 0 THEN <<Head(s)>> \o VariantInsert(e, Tail(s))
  ELSE <<e>> \o s

RECURSIVE VariantSort(_)
VariantSort(s) ==
  IF Len(s) = 0 THEN <<>>
  ELSE VariantInsert(s[Len(s)], VariantSort(SubSeq(s, 1, Len(s) - 1)))

\* The second loop: for (const g of groups) { g.variants.sort(...) }
SortVariants(groups) ==
  [i \in 1..Len(groups) |-> [groups[i] EXCEPT !.variants = VariantSort(@)]]

\* Mutant of groupVariants: the shared metadata is that of the lightest variant.
groupVariants_LightestMeta(models) ==
  LET sorted == SortVariants(GroupLoop(models, <<>>))
  IN  [i \in 1..Len(sorted) |->
         [NewGroup(sorted[i].variants[1]) EXCEPT !.variants = sorted[i].variants]]

groupVariants(models) == SortVariants(GroupLoop(models, <<>>))

\* ------------------------------------------------------------------ inputs
\* kv_per_1k_gb lies in [0, 2] GB: none, a fraction of a GB, more than 1 GB.
KvValues == {0, 1, GBUnits + 1}
MaxContextValues == {2, 8}

\* The models of the single-model catalogs: every weight, KV cost and context
\* ceiling, with and without a features list (swe_bench_score is absent).
GeneratedModels ==
  LET Base ==
        {[id |-> "gen", name |-> "Gen", params_b |-> 7, weight_gb |-> w,
          kv_per_1k_gb |-> k, max_context_k |-> c, layers |-> 4, mmlu_score |-> 70] :
           w \in 1..MaxWeight, k \in KvValues, c \in MaxContextValues}
  IN  Base \cup {[features |-> {"vision"}] @@ m : m \in Base}

\* The models of the longer catalogs: two variants of one model (equal
\* scores), a model without swe_bench_score and features, and a model with a
\* null swe_bench_score and a KV cost above 1 GB.
FixtureModels ==
  { [id |-> "a-q4", name |-> "A", params_b |-> 7, weight_gb |-> 1, kv_per_1k_gb |-> 1,
     max_context_k |-> 8, layers |-> 4, mmlu_score |-> 80, swe_bench_score |-> 25,
     features |-> {"vision", "tool_use"}],
    [id |-> "a-q8", name |-> "A", params_b |-> 7, weight_gb |-> 4, kv_per_1k_gb |-> 1,
     max_context_k |-> 8, layers |-> 4, mmlu_score |-> 80, swe_bench_score |-> 25,
     features |-> {"vision", "tool_use"}],
    [id |-> "b-q4", name |-> "B", params_b |-> 3, weight_gb |-> 2, kv_per_1k_gb |-> 0,
     max_context_k |-> 8, layers |-> 2, mmlu_score |-> 60],
    [id |-> "c-q4", name |-> "C", params_b |-> 30, weight_gb |-> 4,
     kv_per_1k_gb |-> GBUnits + 1, max_context_k |-> 2, layers |-> 8, mmlu_score |-> 85,
     swe_bench_score |-> Null, features |-> {}] }

SeqsUpTo(S, n) == UNION {[1..k -> S] : k \in 1..n}

Catalogs == {<<m>> : m \in GeneratedModels} \cup SeqsUpTo(FixtureModels, MaxModels)

VramValues == 0..MaxVram
\* Unknown, a bandwidth so low that the estimate is a few tok/s, and one
\* bandwidth below and one above the penalty tiers' borders.
BandwidthValues == {Null, 5, 300, 800}
MinContextValues == {Null, 3, 6}
MinSpeedValues == {Null, 150}
\* No requirement, and two features of which the generated models have one.
FeatureRequests == {{}, {"vision", "tool_use"}}
SortByValues == {"mmlu", "swe-bench"}
SystemRamValues == {Null, 0, 1, MaxSystemRam}

\* ------------------------------------------------------------------- state
\* One call of an exported function: its name, its arguments, and, once pc is
\* "return", the value it returned.  gpuInput is the state of the GpuInput
\* component (its $state fields and its bound vram/bandwidth props); the calls
\* of calculations.js run without a component.
VARIABLES fn, args, ret, pc, gpuInput

vars == <<fn, args, ret, pc, gpuInput>>

NoComponent == [type |-> "null"]

Returned(f) == fn = f /\ pc = "return"

\* ---- bucketModels(allModels, vram, bandwidth, minContextK, minTokPerSec,
\*                   requiredFeatures, sortBy, systemRamGB)
Init ==
  /\ fn = "bucketModels"
  /\ args \in [allModels : Catalogs, vram : VramValues, bandwidth : BandwidthValues,
               minContextK : MinContextValues, minTokPerSec : MinSpeedValues,
               requiredFeatures : FeatureRequests, sortBy : SortByValues,
               systemRamGB : SystemRamValues]
  /\ ret = Null
  /\ pc = "call"
  /\ gpuInput = NoComponent

BucketModels ==
  /\ fn = "bucketModels"
  /\ pc = "call"
  /\ ret' = bucketModels(args.allModels, args.vram, args.bandwidth, args.minContextK,
                         args.minTokPerSec, args.requiredFeatures, args.sortBy,
                         args.systemRamGB)
  /\ pc' = "return"
  /\ UNCHANGED <<fn, args, gpuInput>>

Next == BucketModels

Spec == Init /\ [][Next]_vars

\* ---- calcOffloadConfig(model, vram, systemRamGB)
OffloadModels ==
  LET Base == {[weight_gb |-> w] : w \in 1..MaxWeight}
  IN  Base \cup {[layers |-> 4] @@ m : m \in Base}

InitOffload ==
  /\ fn = "calcOffloadConfig"
  /\ args \in [model : OffloadModels, vram : VramValues, systemRamGB : SystemRamValues]
  /\ ret = Null
  /\ pc = "call"
  /\ gpuInput = NoComponent

CalcOffloadConfig ==
  /\ fn = "calcOffloadConfig"
  /\ pc = "call"
  /\ ret' = calcOffloadConfig(args.model, args.vram, args.systemRamGB)
  /\ pc' = "return"
  /\ UNCHANGED <<fn, args, gpuInput>>

NextOffload == CalcOffloadConfig

SpecOffload == InitOffload /\ [][NextOffload]_vars

\* ---- calcOffloadPenalty(offloadRatio, bandwidth)
\* Every ratio n/d in [0, 1]: the documented range is 0..0.5, but the function
\* is exported and accepts any number.
RatioValues == UNION {{Rat(n, d) : n \in 0..d} : d \in (1..MaxDen) \cup {FineDen}}
PenaltyBandwidths == {Null, 0, 300, 399, 400, 500, 699, 700, 1000}

InitPenalty ==
  /\ fn = "calcOffloadPenalty"
  /\ args \in [offloadRatio : RatioValues, bandwidth : PenaltyBandwidths]
  /\ ret = Null
  /\ pc = "call"
  /\ gpuInput = NoComponent

CalcOffloadPenalty ==
  /\ fn = "calcOffloadPenalty"
  /\ pc = "call"
  /\ ret' = calcOffloadPenalty(args.offloadRatio, args.bandwidth)
  /\ pc' = "return"
  /\ UNCHANGED <<fn, args, gpuInput>>

NextPenalty == CalcOffloadPenalty

SpecPenalty == InitPenalty /\ [][NextPenalty]_vars

\* ---- calcMaxContext(model, userVram)
ContextModels ==
  [weight_gb : 1..MaxWeight, kv_per_1k_gb : KvValues, max_context_k : MaxContextValues]

InitMaxContext ==
  /\ fn = "calcMaxContext"
  /\ args \in [model : ContextModels, userVram : VramValues]
  /\ ret = Null
  /\ pc = "call"
  /\ gpuInput = NoComponent

CalcMaxContext ==
  /\ fn = "calcMaxContext"
  /\ pc = "call"
  /\ ret' = calcMaxContext(args.model, args.userVram)
  /\ pc' = "return"
  /\ UNCHANGED <<fn, args, gpuInput>>

NextMaxContext == CalcMaxContext

SpecMaxContext == InitMaxContext /\ [][NextMaxContext]_vars

\* ---- calcMaxContextWithOffload(model, vram, systemRamGB)
InitMaxContextWithOffload ==
  /\ fn = "calcMaxContextWithOffload"
  /\ args \in [model : ContextModels, vram : VramValues, systemRamGB : SystemRamValues]
  /\ ret = Null
  /\ pc = "call"
  /\ gpuInput = NoComponent

CalcMaxContextWithOffload ==
  /\ fn = "calcMaxContextWithOffload"
  /\ pc = "call"
  /\ ret' = calcMaxContextWithOffload(args.model, args.vram, args.systemRamGB)
  /\ pc' = "return"
  /\ UNCHANGED <<fn, args, gpuInput>>

NextMaxContextWithOffload == CalcMaxContextWithOffload

SpecMaxContextWithOffload == InitMaxContextWithOffload /\ [][NextMaxContextWithOffload]_vars

\* ---- calcTokPerSec(model, bandwidth)
SpeedModels == [weight_gb : 1..MaxWeight]
SpeedBandwidths == {Null} \cup (0..MaxBandwidth) \cup {300, 504, 1008}

InitTokPerSec ==
  /\ fn = "calcTokPerSec"
  /\ args \in [model : SpeedModels, bandwidth : SpeedBandwidths]
  /\ ret = Null
  /\ pc = "call"
  /\ gpuInput = NoComponent

CalcTokPerSec ==
  /\ fn = "calcTokPerSec"
  /\ pc = "call"
  /\ ret' = calcTokPerSec(args.model, args.bandwidth)
  /\ pc' = "return"
  /\ UNCHANGED <<fn, args, gpuInput>>

NextTokPerSec == CalcTokPerSec

SpecTokPerSec == InitTokPerSec /\ [][NextTokPerSec]_vars

\* ---- calcMultiGpuResources(vram, bandwidth, quantity)
\* The VRAM of one GPU: every amount up to MaxVram units, and 24 GB.
GpuVramValues == VramValues \cup {24 * GBUnits}
GpuBandwidths == {Null, 0, 1, 3, 300, 1008}
Quantities == {Null} \cup (1..MaxQuantity)

InitMultiGpu ==
  /\ fn = "calcMultiGpuResources"
  /\ args \in [vram : GpuVramValues, bandwidth : GpuBandwidths, quantity : Quantities]
  /\ ret = Null
  /\ pc = "call"
  /\ gpuInput = NoComponent

CalcMultiGpuResources ==
  /\ fn = "calcMultiGpuResources"
  /\ pc = "call"
  /\ ret' = calcMultiGpuResources(args.vram, args.bandwidth, args.quantity)
  /\ pc' = "return"
  /\ UNCHANGED <<fn, args, gpuInput>>

NextMultiGpu == CalcMultiGpuResources

SpecMultiGpu == InitMultiGpu /\ [][NextMultiGpu]_vars

\* ---- bucketModels on catalogs of one model of every score
\* One model with every mmlu_score and every swe_bench_score: absent, null or
\* a number.
ScoredModels ==
  LET Base ==
        {[id |-> "s-q4", name |-> "S", params_b |-> 7, weight_gb |-> 1, kv_per_1k_gb |-> 1,
          max_context_k |-> 8, layers |-> 4, mmlu_score |-> s] : s \in 0..MaxScore}
  IN  Base \cup {[swe_bench_score |-> c] @@ m : c \in {Null} \cup (0..MaxScore), m \in Base}

InitScored ==
  /\ fn = "bucketModels"
  /\ args \in [allModels : {<<m>> : m \in ScoredModels}, vram : {MaxVram},
               bandwidth : {Null}, minContextK : {Null}, minTokPerSec : {Null},
               requiredFeatures : {{}}, sortBy : SortByValues, systemRamGB : {Null}]
  /\ ret = Null
  /\ pc = "call"
  /\ gpuInput = NoComponent

NextScored == BucketModels

SpecScored == InitScored /\ [][NextScored]_vars

\* ---- groupVariants(models)
\* Enriched entries of two models: three weights each, two scores, the coding
\* score and the features present or absent.
GroupEntries ==
  LET Base ==
        {[name |-> n, weight_gb |-> w, params_b |-> IF s = 60 THEN 3 ELSE 7,
          mmlu_score |-> s, tier |-> qualityTier(s)] :
           n \in {"A", "B"}, w \in 1..3, s \in {60, 85}}
  IN  {m \in Base : m.mmlu_score = 60}
        \cup {[swe_bench_score |-> 25, features |-> {"vision"}] @@ m :
                m \in {b \in Base : b.mmlu_score = 85}}

InitGroup ==
  /\ fn = "groupVariants"
  /\ args \in [models : {<<>>} \cup SeqsUpTo(GroupEntries, MaxEntries)]
  /\ ret = Null
  /\ pc = "call"
  /\ gpuInput = NoComponent

GroupVariants ==
  /\ fn = "groupVariants"
  /\ pc = "call"
  /\ ret' = groupVariants(args.models)
  /\ pc' = "return"
  /\ UNCHANGED <<fn, args, gpuInput>>

NextGroup == GroupVariants

SpecGroup == InitGroup /\ [][NextGroup]_vars

\* ---- GpuInput.svelte: GPU selection, manual VRAM and GPU quantity
\* gpus.json: a discrete GPU carries vram_gb and bandwidth_gbps, a GPU with
\* configurable memory carries vram_options in increasing vram_gb.
Gpus ==
  <<[id |-> "rtx-4090", vram_gb |-> 24 * GBUnits, bandwidth_gbps |-> 1008],
    [id |-> "m2-max",
     vram_options |-> <<[vram_gb |-> 32 * GBUnits, bandwidth_gbps |-> 400],
                        [vram_gb |-> 64 * GBUnits, bandwidth_gbps |-> 400]>>]>>

NoGpu == [type |-> "null"]

\* gpus.find((g) => g.id === id) ?? null
FindGpu(id) ==
  IF \E i \in 1..Len(Gpus) : Gpus[i].id = id
  THEN Gpus[CHOOSE i \in 1..Len(Gpus) :
              Gpus[i].id = id /\ \A j \in 1..(i - 1) : Gpus[j].id # id]
  ELSE NoGpu

\* Number(s) of the numerals the props and the memory select carry.
NumberOf(s) ==
  CASE s = "-2" -> 0 - 2
    [] s = "0" -> 0
    [] s = "1" -> 1
    [] s = "2" -> 2
    [] s = "3" -> 3
    [] s = "5" -> 5
    [] s = "8" -> 8
    [] s = "9" -> 9
    [] s = "99" -> 99

\* parseFloat(s): the texts that give NaN, and the value in memory units of
\* the others.
ParseFloatIsNaN(s) == s \in {"", "abc"}

ParseFloat(s) ==
  CASE s = "-4" -> 0 - 4 * GBUnits
    [] s = "0" -> 0
    [] s = "8" -> 8 * GBUnits
    [] s = "12" -> 12 * GBUnits

\* vram_options[idx] of a zero-based index, null when there is no such option.
NoOption == [type |-> "null"]

OptionAt(gpu, idx) ==
  IF idx + 1 \in DOMAIN gpu.vram_options THEN gpu.vram_options[idx + 1] ELSE NoOption

\* The values of the props and of the form controls.
GpuIdProps == {"", "rtx-4090", "m2-max", "gtx-0"}
MemIdxProps == {"", "0", "1", "5"}
ManualVramProps == {"", "8", "abc", "-4"}
GpuQuantityProps == {"", "1", "2", "3", "8", "0", "9", "99", "-2"}
GpuChoices == {""} \cup {Gpus[i].id : i \in 1..Len(Gpus)}
ManualVramTexts == {"", "0", "8", "12", "-4"}
NoNumber == [type |-> "null"]

QuantityInputs ==
  {NoNumber} \cup {Rat(n, 1) : n \in {0 - 3, 0, 1, 2, 3, 4, 8, 9, 12}} \cup {Rat(5, 2), Rat(1, 2)}

\* The component after its script has run: the $state initialisers, and the
\* bound props vram and bandwidth at their defaults.  An empty memory
\* selection ('') is Null.  call holds the arguments of the
\* calcMultiGpuResources call of the last applyMultiGpu, <<>> when it made none.
Created(props) ==
  [selectedGpuId |-> props.initialGpuId,
   manualVram |-> props.initialManualVram,
   selectedMemoryIdx |-> IF props.initialMemIdx # "" THEN NumberOf(props.initialMemIdx)
                         ELSE Null,
   gpuQuantity |-> IF props.initialGpuQuantity # "" THEN NumberOf(props.initialGpuQuantity)
                   ELSE 1,
   baseVram |-> Null,
   baseBandwidth |-> Null,
   vram |-> Null,
   bandwidth |-> Null,
   call |-> <<>>]

WithBase(c, v, b) == [c EXCEPT !.baseVram = v, !.baseBandwidth = b]

applyMultiGpu(c) ==
  IF c.baseVram = Null
  THEN [c EXCEPT !.vram = Null, !.bandwidth = Null, !.call = <<>>]
  ELSE [c EXCEPT !.vram = calcMultiGpuResources(c.baseVram, c.baseBandwidth, c.gpuQuantity).vram,
                 !.bandwidth = calcMultiGpuResources(c.baseVram, c.baseBandwidth, c.gpuQuantity).bandwidth,
                 !.call = <<c.baseVram, c.baseBandwidth, c.gpuQuantity>>]

\* onGpuChange, after bind:value has set selectedGpuId
GpuChanged(c) ==
  LET gpu == FindGpu(c.selectedGpuId)
      cleared == [c EXCEPT !.manualVram = "", !.selectedMemoryIdx = Null]
  IN  IF gpu = NoGpu THEN applyMultiGpu(WithBase(cleared, Null, Null))
      ELSE IF "vram_options" \in DOMAIN gpu THEN applyMultiGpu(WithBase(cleared, Null, Null))
      ELSE applyMultiGpu(WithBase(cleared, gpu.vram_gb, gpu.bandwidth_gbps))

\* onMemoryChange, after bind:value has set selectedMemoryIdx
MemoryChanged(c) ==
  LET gpu == FindGpu(c.selectedGpuId)
  IN  IF c.selectedMemoryIdx = Null \/ "vram_options" \notin DOMAIN gpu
      THEN applyMultiGpu(WithBase(c, Null, Null))
      ELSE IF OptionAt(gpu, c.selectedMemoryIdx) = NoOption
      THEN applyMultiGpu(WithBase(c, Null, Null))
      ELSE applyMultiGpu(WithBase(c, OptionAt(gpu, c.selectedMemoryIdx).vram_gb,
                                  OptionAt(gpu, c.selectedMemoryIdx).bandwidth_gbps))

\* onManualInput, after bind:value has set manualVram
ManualInput(c) ==
  LET cleared == [c EXCEPT !.selectedGpuId = ""]
      valid == ~ParseFloatIsNaN(c.manualVram) /\ ParseFloat(c.manualVram) > 0
  IN  applyMultiGpu(WithBase(cleared, IF valid THEN ParseFloat(c.manualVram) ELSE Null, Null))

\* Math.max(1, Math.min(8, Math.floor(Number(x) || 1))) of the number input's
\* value x: a number, or null when the field is empty.
ClampQuantity(x) ==
  LET floored == IF x = NoNumber THEN 1 ELSE IF x.n = 0 THEN 1 ELSE x.n \div x.d
      capped == IF floored < 8 THEN floored ELSE 8
  IN  IF capped > 1 THEN capped ELSE 1

\* onQuantityChange, after bind:value has set gpuQuantity to x
QuantityChanged(c, x) == applyMultiGpu([c EXCEPT !.gpuQuantity = ClampQuantity(x)])

\* The base VRAM and bandwidth onMount takes from the props.
MountBase(c, props) ==
  LET gpu == FindGpu(props.initialGpuId)
      opt == OptionAt(gpu, NumberOf(props.initialMemIdx))
      valid == ~ParseFloatIsNaN(props.initialManualVram)
                 /\ ParseFloat(props.initialManualVram) > 0
  IN  IF props.initialGpuId # ""
      THEN IF gpu = NoGpu THEN c
           ELSE IF "vram_options" \in DOMAIN gpu
           THEN IF props.initialMemIdx # "" /\ opt # NoOption
                THEN WithBase(c, opt.vram_gb, opt.bandwidth_gbps)
                ELSE c
           ELSE WithBase(c, gpu.vram_gb, gpu.bandwidth_gbps)
      ELSE IF props.initialManualVram # "" /\ valid
      THEN WithBase(c, ParseFloat(props.initialManualVram), Null)
      ELSE c

\* The quantity onMount takes from the prop: it assigns gpuQuantity only when
\* the prop is an integer from 1 to 8, and otherwise leaves the field as the
\* script initialised it.
MountQuantity(c, props) ==
  LET qty == NumberOf(props.initialGpuQuantity)
  IN  IF props.initialGpuQuantity # "" /\ props.initialGpuQuantity # "1"
      THEN IF qty >= 1 /\ qty <= 8 THEN [c EXCEPT !.gpuQuantity = qty] ELSE c
      ELSE c

Mounted(c, props) == applyMultiGpu(MountQuantity(MountBase(c, props), props))

InitGpuInput ==
  /\ fn = "GpuInput"
  /\ args \in [initialGpuId : GpuIdProps, initialMemIdx : MemIdxProps,
               initialManualVram : ManualVramProps,
               initialGpuQuantity : GpuQuantityProps]
  /\ ret = Null
  /\ pc = "created"
  /\ gpuInput = Created(args)

OnMount ==
  /\ fn = "GpuInput"
  /\ pc = "created"
  /\ gpuInput' = Mounted(gpuInput, args)
  /\ pc' = "mounted"
  /\ UNCHANGED <<fn, args, ret>>

OnGpuChange ==
  /\ fn = "GpuInput"
  /\ pc = "mounted"
  /\ \E id \in GpuChoices :
       gpuInput' = GpuChanged([gpuInput EXCEPT !.selectedGpuId = id])
  /\ UNCHANGED <<fn, args, ret, pc>>

\* The memory select is rendered only for a GPU with vram_options.
OnMemoryChange ==
  /\ fn = "GpuInput"
  /\ pc = "mounted"
  /\ "vram_options" \in DOMAIN FindGpu(gpuInput.selectedGpuId)
  /\ \E idx \in {Null} \cup {i - 1 : i \in DOMAIN FindGpu(gpuInput.selectedGpuId).vram_options} :
       gpuInput' = MemoryChanged([gpuInput EXCEPT !.selectedMemoryIdx = idx])
  /\ UNCHANGED <<fn, args, ret, pc>>

OnManualInput ==
  /\ fn = "GpuInput"
  /\ pc = "mounted"
  /\ \E text \in ManualVramTexts :
       gpuInput' = ManualInput([gpuInput EXCEPT !.manualVram = text])
  /\ UNCHANGED <<fn, args, ret, pc>>

\* The quantity input is rendered only when selectedGpuId or manualVram is
\* truthy; the text "0" is the number 0 of the manual VRAM input.
OnQuantityChange ==
  /\ fn = "GpuInput"
  /\ pc = "mounted"
  /\ gpuInput.selectedGpuId # "" \/ gpuInput.manualVram \notin {"", "0"}
  /\ \E x \in QuantityInputs : gpuInput' = QuantityChanged(gpuInput, x)
  /\ UNCHANGED <<fn, args, ret, pc>>

NextGpuInput ==
  \/ OnMount
  \/ OnGpuChange
  \/ OnMemoryChange
  \/ OnManualInput
  \/ OnQuantityChange

SpecGpuInput == InitGpuInput /\ [][NextGpuInput]_vars

\* ================================================================== claims
\* ---- vocabulary of the bucketModels claims
EnrichedFields ==
  {"maxCtxK", "fitsAtAll", "meetsMinCtx", "meetsMinSpeed", "meetsFeatures",
   "modelSupportsCtx", "tokPerSec", "tier", "offloadInfo", "ctxInfo"}

\* The catalog model an enriched entry was made from.
ModelOf(e) == [f \in DOMAIN e \ EnrichedFields |-> e[f]]

SeqRange(s) == {s[i] : i \in 1..Len(s)}

CatalogModels == SeqRange(args.allModels)
AllEntries == SeqRange(ret.fits) \cup SeqRange(ret.tight) \cup SeqRange(ret.noFit)
EntriesOf(m) == {e \in AllEntries : ModelOf(e) = m}
InBucket(m, bucket) == \E i \in 1..Len(bucket) : ModelOf(bucket[i]) = m

\* calcOffloadConfig(model, vram, systemRamGB) is feasible with offloadRatio > 0.
NeedsOffload(m) ==
  LET plan == calcOffloadConfig(m, args.vram, args.systemRamGB)
  IN  plan.feasible /\ RLt(Rat(0, 1), plan.offloadRatio)

\* vram < weight_gb + kv_per_1k_gb: the baseline fit fails.
BaselineFails(m) == args.vram < m.weight_gb + m.kv_per_1k_gb

\* max_context_k < minContextK, minContextK non-null.
BelowMinContext(m) == args.minContextK # Null /\ m.max_context_k < args.minContextK

\* C1 as stated: a model whose offload plan is feasible with a nonzero offload
\* ratio is never in fits.  Violated: a model that passes the baseline fit
\* (the plan is not consulted) while its weights exceed vram - 1.0 is in fits.
C1_AsStated ==
  Returned("bucketModels") =>
    \A m \in CatalogModels : NeedsOffload(m) => ~InBucket(m, ret.fits)

\* C1 amended: a model that fails the baseline fit and whose offload plan is
\* feasible with a nonzero offload ratio is never in fits.
C1_OffloadedNeverFits ==
  Returned("bucketModels") =>
    \A m \in CatalogModels :
      (BaselineFails(m) /\ NeedsOffload(m)) => ~InBucket(m, ret.fits)

\* An offloaded model with no filter set and its full context (kv 0).
C1_Witness ==
  /\ Returned("bucketModels")
  /\ args.minContextK = Null /\ args.minTokPerSec = Null /\ args.requiredFeatures = {}
  /\ \E m \in CatalogModels :
       /\ BaselineFails(m) /\ NeedsOffload(m)
       /\ \E e \in SeqRange(ret.tight) : ModelOf(e) = m /\ e.maxCtxK >= TIGHT_FIT_CONTEXT_K

FeaturesOf(e) == IF "features" \in DOMAIN e THEN e.features ELSE {}

\* C4: an entry is in fits iff the baseline fit holds, offloadInfo is null,
\* maxCtxK >= 4, maxCtxK >= minContextK when set, tokPerSec >= minTokPerSec
\* when both are known, and every required feature is among its features.
C4_FitsIff ==
  Returned("bucketModels") =>
    /\ \A m \in CatalogModels : EntriesOf(m) # {}
    /\ \A e \in AllEntries :
         (e \in SeqRange(ret.fits)) <=>
           /\ args.vram >= e.weight_gb + e.kv_per_1k_gb
           /\ e.offloadInfo = NullInfo
           /\ e.maxCtxK >= 4
           /\ (args.minContextK # Null => e.maxCtxK >= args.minContextK)
           /\ ((args.minTokPerSec # Null /\ e.tokPerSec # Null)
                 => e.tokPerSec >= args.minTokPerSec)
           /\ args.requiredFeatures \subseteq FeaturesOf(e)

\* With every filter set: one model in fits, and one kept out of it by the
\* minimum speed alone.
C4_Witness ==
  /\ Returned("bucketModels")
  /\ args.minContextK # Null /\ args.minTokPerSec # Null /\ args.requiredFeatures # {}
  /\ args.bandwidth # Null
  /\ Len(ret.fits) > 0
  /\ \E e \in SeqRange(ret.tight) :
       /\ e.offloadInfo = NullInfo
       /\ e.maxCtxK >= 4 /\ e.maxCtxK >= args.minContextK
       /\ args.requiredFeatures \subseteq FeaturesOf(e)
       /\ e.tokPerSec < args.minTokPerSec

\* C5: an entry has an offloadInfo iff the baseline fit fails, systemRamGB is
\* non-null and calcOffloadConfig is feasible with offloadRatio > 0; such an
\* entry is in tight (without system RAM the model is in noFit), except that
\* below the minimum context it is in noFit.
C5_OffloadInfoIff ==
  Returned("bucketModels") =>
    /\ \A m \in CatalogModels : EntriesOf(m) # {}
    /\ \A e \in AllEntries :
         /\ (e.offloadInfo # NullInfo) <=>
              /\ BaselineFails(ModelOf(e))
              /\ args.systemRamGB # Null
              /\ NeedsOffload(ModelOf(e))
         /\ (e.offloadInfo # NullInfo) =>
              /\ IF BelowMinContext(ModelOf(e))
                   THEN /\ e \in SeqRange(ret.noFit)
                        /\ e \notin SeqRange(ret.tight) \cup SeqRange(ret.fits)
                   ELSE /\ e \in SeqRange(ret.tight)
                        /\ e \notin SeqRange(ret.noFit) \cup SeqRange(ret.fits)
              /\ InBucket(ModelOf(e),
                          bucketModels(<<ModelOf(e)>>, args.vram, args.bandwidth, Null,
                                       args.minTokPerSec, args.requiredFeatures,
                                       args.sortBy, Null).noFit)

\* An offloaded entry in tight and an offloaded entry in noFit.
C5_Witness ==
  /\ Returned("bucketModels")
  /\ \E e \in SeqRange(ret.tight) : e.offloadInfo # NullInfo
  /\ \E e \in SeqRange(ret.noFit) : e.offloadInfo # NullInfo

\* C6 as stated (README, "Doesn't fit: weights alone exceed available VRAM"):
\* with no system RAM and no minimum context a model is in noFit exactly when
\* weight_gb > vram.  Violated by the code, which also counts 1K of context:
\* a model with weight_gb <= vram < weight_gb + kv_per_1k_gb is in noFit.
C6_NoFitIffWeightsExceedVram ==
  (Returned("bucketModels") /\ args.systemRamGB = Null /\ args.minContextK = Null) =>
    \A m \in CatalogModels : InBucket(m, ret.noFit) <=> m.weight_gb > args.vram

\* ---- calcOffloadConfig
\* C7: calcOffloadConfig is feasible iff weight_gb <= vram - 1.0 (then no
\* offload: ratio 0, ramWeightGB 0, gpuWeightGB = weight_gb), or systemRamGB
\* is non-null and ramWeightGB = weight_gb - max(vram - 1.0, 0) is at most half
\* of weight_gb and at most systemRamGB; a feasible result splits the weights:
\* gpuWeightGB + ramWeightGB = weight_gb.
C7_FeasibleIff ==
  Returned("calcOffloadConfig") =>
    LET w == args.model.weight_gb
        avail == args.vram - GBUnits
        ram == w - (IF avail > 0 THEN avail ELSE 0)
        onGpu == w <= avail
        canOffload == args.systemRamGB # Null /\ 2 * ram <= w /\ ram <= args.systemRamGB
    IN  /\ ret.feasible <=> (onGpu \/ canOffload)
        /\ onGpu =>
             /\ ret.offloadRatio = [n |-> 0, d |-> 1]
             /\ ret.ramWeightGB = 0
             /\ ret.gpuWeightGB = w
        /\ (ret.feasible /\ ~onGpu) =>
             /\ ret.ramWeightGB = ram
             /\ ret.offloadRatio.n * w = ram * ret.offloadRatio.d
        /\ ret.feasible => ret.gpuWeightGB + ret.ramWeightGB = w

\* A feasible plan that offloads exactly half of the weights, using all of
\* the system RAM.
C7_Witness ==
  /\ Returned("calcOffloadConfig")
  /\ ret.feasible
  /\ ret.ramWeightGB > 0
  /\ 2 * ret.ramWeightGB = args.model.weight_gb

\* ---- calcOffloadPenalty
\* The penalty applied: 1 - speedMultiplier.
PenaltyOf(r) == RSub(Rat(1, 1), r.speedMultiplier)

\* The scale of the bandwidth tier, in percent.
TierScale(bandwidth) ==
  IF bandwidth = Null THEN 100
  ELSE IF bandwidth < 400 THEN 80
  ELSE IF bandwidth < 700 THEN 90
  ELSE 100

PositiveRatio == RLt(Rat(0, 1), args.offloadRatio)

\* C8 as stated: for every offloadRatio > 0 and every bandwidth the penalty is
\* at least 15% (speedMultiplier <= 0.85).  Violated below 700 GB/s, where the
\* base penalty is scaled by 0.80 or 0.90.
C8_AsStated ==
  (Returned("calcOffloadPenalty") /\ PositiveRatio) =>
    RLe(ret.speedMultiplier, Rat(85, 100))

\* C8 amended: for every offloadRatio > 0 the penalty is at least 15% scaled
\* by the bandwidth tier (15% for unknown or >= 700 GB/s, 13.5% for 400..699,
\* 12% below 400) and at most 50%.
C8_PenaltyFloor ==
  (Returned("calcOffloadPenalty") /\ PositiveRatio) =>
    /\ RLe(Rat(15 * TierScale(args.bandwidth), 10000), PenaltyOf(ret))
    /\ RLe(PenaltyOf(ret), Rat(50, 100))
    /\ (TierScale(args.bandwidth) = 100 => RLe(ret.speedMultiplier, Rat(85, 100)))

\* A positive ratio below 400 GB/s with a penalty under 15%.
C8_Witness ==
  /\ Returned("calcOffloadPenalty")
  /\ PositiveRatio
  /\ args.bandwidth # Null /\ args.bandwidth < 400
  /\ RLt(PenaltyOf(ret), Rat(15, 100))

\* C9: for every bandwidth the penalty is 0 at offloadRatio 0 (speedMultiplier
\* 1), does not decrease when offloadRatio grows, and is at most 0.50
\* (speedMultiplier >= 0.50, penaltyPercent <= 50).
C9_PenaltyMonotoneCapped ==
  Returned("calcOffloadPenalty") =>
    /\ args.offloadRatio.n = 0 =>
         ret.speedMultiplier = [n |-> 1, d |-> 1] /\ ret.penaltyPercent = 0
    /\ \A r2 \in RatioValues :
         RLe(args.offloadRatio, r2) =>
           RLe(PenaltyOf(ret), PenaltyOf(calcOffloadPenalty(r2, args.bandwidth)))
    /\ RLe(PenaltyOf(ret), Rat(50, 100))
    /\ RLe(Rat(50, 100), ret.speedMultiplier)
    /\ ret.penaltyPercent <= 50

\* A ratio above 0.5 at full penalty: the cap is what keeps it at 50%.
C9_Witness ==
  /\ Returned("calcOffloadPenalty")
  /\ RLt(Rat(1, 2), args.offloadRatio)
  /\ TierScale(args.bandwidth) = 100
  /\ ret.speedMultiplier = [n |-> 1, d |-> 2]
  /\ ret.penaltyPercent = 50

\* s * (0.15 + 0.70 * offloadRatio), s the tier scale, as the fraction num/den.
ScaledNum(ratio, bandwidth) == TierScale(bandwidth) * (15 * ratio.d + 70 * ratio.n)
ScaledDen(ratio) == 10000 * ratio.d

\* No bandwidth of a tier at most that of the call gets a larger penalty.
LowerTierNoLargerPenalty ==
  \A b2 \in PenaltyBandwidths :
    TierScale(b2) <= TierScale(args.bandwidth) =>
      RLe(PenaltyOf(calcOffloadPenalty(args.offloadRatio, b2)), PenaltyOf(ret))

OffloadedWithSpeed == {e \in AllEntries : e.offloadInfo # NullInfo /\ args.bandwidth # Null}

\* calcTokPerSec(model, bandwidth) of the model of entry e.
BaseTokPerSec(e) == calcTokPerSec(ModelOf(e), args.bandwidth)

\* C11 as stated: the tokPerSec of an offloaded entry with known bandwidth is
\* strictly lower than calcTokPerSec(model, bandwidth).  Violated: the product
\* is rounded, so a low estimate (1 tok/s at a 21% penalty) stays as it is.
C11_AsStated ==
  Returned("bucketModels") =>
    \A e \in OffloadedWithSpeed : e.tokPerSec < BaseTokPerSec(e)

\* C11 amended: the tokPerSec of an offloaded entry with known bandwidth is
\* calcTokPerSec(model, bandwidth) * speedMultiplier rounded to the nearest
\* integer; it is never higher than calcTokPerSec(model, bandwidth), and
\* strictly lower exactly when calcTokPerSec(model, bandwidth) * penalty > 0.5,
\* which is so whenever calcTokPerSec(model, bandwidth) >= 5.
C11_OffloadedSlower ==
  Returned("bucketModels") =>
    \A e \in OffloadedWithSpeed :
      LET base == BaseTokPerSec(e)
          mult == e.offloadInfo.speedMultiplier
          lost == RSub(Rat(1, 1), mult)
      IN  /\ (2 * e.tokPerSec - 1) * mult.d <= 2 * base * mult.n
          /\ 2 * base * mult.n < (2 * e.tokPerSec + 1) * mult.d
          /\ e.tokPerSec <= base
          /\ (e.tokPerSec < base) <=> (2 * base * lost.n > lost.d)
          /\ base >= 5 => e.tokPerSec < base

\* An offloaded entry that is slower than the same model in VRAM.
C11_Witness ==
  /\ Returned("bucketModels")
  /\ \E e \in OffloadedWithSpeed : BaseTokPerSec(e) >= 5 /\ e.tokPerSec < BaseTokPerSec(e)

\* ---- calcMaxContext
\* floor(avail / kv) for avail >= 0 and kv > 0: the k with k * kv <= avail < (k + 1) * kv.
WholeKs(avail, kv) == CHOOSE k \in 0..avail : k * kv <= avail /\ avail < (k + 1) * kv

\* C12: calcMaxContext returns 0 when vram <= weight_gb; otherwise
\* max_context_k when kv_per_1k_gb <= 0; otherwise
\* min(floor((vram - weight_gb) / kv_per_1k_gb), max_context_k).
C12_MaxContextValue ==
  Returned("calcMaxContext") =>
    LET m == args.model
        avail == args.userVram - m.weight_gb
    IN  IF args.userVram <= m.weight_gb THEN ret = 0
        ELSE IF m.kv_per_1k_gb <= 0 THEN ret = m.max_context_k
        ELSE IF WholeKs(avail, m.kv_per_1k_gb) <= m.max_context_k
          THEN ret = WholeKs(avail, m.kv_per_1k_gb)
        ELSE ret = m.max_context_k

\* A context limited by VRAM, below the ceiling, the quotient not whole.
C12_Witness ==
  /\ Returned("calcMaxContext")
  /\ args.userVram > args.model.weight_gb
  /\ args.model.kv_per_1k_gb > 1
  /\ (args.userVram - args.model.weight_gb) % args.model.kv_per_1k_gb # 0
  /\ ret > 0
  /\ ret < args.model.max_context_k

\* ---- the architectural ceiling
\* C13: the usable context never exceeds the model's ceiling: calcMaxContext,
\* calcMaxContextWithOffload(...).maxCtxK and the maxCtxK of every enriched
\* entry (VRAM-only, RAM-extended, weight-offload) are within 0..max_context_k.
C13_ContextWithinCeiling ==
  Returned("bucketModels") =>
    /\ \A e \in AllEntries : 0 <= e.maxCtxK /\ e.maxCtxK <= e.max_context_k
    /\ \A m \in CatalogModels :
         /\ 0 <= calcMaxContext(m, args.vram)
         /\ calcMaxContext(m, args.vram) <= m.max_context_k
         /\ 0 <= calcMaxContextWithOffload(m, args.vram, args.systemRamGB).maxCtxK
         /\ calcMaxContextWithOffload(m, args.vram, args.systemRamGB).maxCtxK
              <= m.max_context_k

\* A RAM-extended entry at its ceiling, which VRAM and system RAM together
\* would exceed, beside an offloaded entry.
C13_Witness ==
  /\ Returned("bucketModels")
  /\ args.systemRamGB # Null
  /\ \E e \in AllEntries :
       /\ e.ctxInfo # NullInfo
       /\ e.maxCtxK = e.max_context_k
       /\ (args.vram - e.weight_gb) \div e.kv_per_1k_gb
            + args.systemRamGB \div e.kv_per_1k_gb > e.max_context_k
  /\ \E e \in AllEntries : e.offloadInfo # NullInfo

\* ---- calcMaxContextWithOffload
\* C14: with systemRamGB null or undefined, calcMaxContextWithOffload returns
\* maxCtxK = calcMaxContext(model, vram), ramCtxK = 0, usingSystemRam = false.
C14_NullRamIsMaxContext ==
  (Returned("calcMaxContextWithOffload") /\ args.systemRamGB = Null) =>
    /\ ret.maxCtxK = calcMaxContext(args.model, args.vram)
    /\ ret.ramCtxK = 0
    /\ ret.usingSystemRam = FALSE

\* Without system RAM, a VRAM that holds more context than the ceiling.
C14_Witness ==
  /\ Returned("calcMaxContextWithOffload")
  /\ args.systemRamGB = Null
  /\ args.model.kv_per_1k_gb > 0
  /\ args.vram - args.model.weight_gb > args.model.max_context_k * args.model.kv_per_1k_gb
  /\ ret.maxCtxK = args.model.max_context_k

\* C15: with systemRamGB non-null, vram > weight_gb and kv_per_1k_gb > 0,
\* maxCtxK = min(floor((vram - weight_gb) / kv_per_1k_gb)
\*               + floor(systemRamGB / kv_per_1k_gb), max_context_k);
\* in every result maxCtxK = vramCtxK + ramCtxK, and usingSystemRam is true
\* exactly when ramCtxK > 0, which requires the VRAM-only context to be below
\* max_context_k.
C15_ExtendedContext ==
  Returned("calcMaxContextWithOffload") =>
    LET m == args.model
        avail == args.vram - m.weight_gb
    IN  /\ (args.systemRamGB # Null /\ avail > 0 /\ m.kv_per_1k_gb > 0) =>
             LET sum == WholeKs(avail, m.kv_per_1k_gb)
                          + WholeKs(args.systemRamGB, m.kv_per_1k_gb)
             IN  ret.maxCtxK = IF sum <= m.max_context_k THEN sum ELSE m.max_context_k
        /\ ret.maxCtxK = ret.vramCtxK + ret.ramCtxK
        /\ ret.usingSystemRam <=> ret.ramCtxK > 0
        /\ ret.ramCtxK > 0 => calcMaxContext(m, args.vram) < m.max_context_k

\* System RAM fills part of the context up to the ceiling: less than it could
\* hold is used.
C15_Witness ==
  /\ Returned("calcMaxContextWithOffload")
  /\ args.systemRamGB # Null
  /\ ret.usingSystemRam
  /\ ret.vramCtxK > 0
  /\ ret.ramCtxK > 0
  /\ ret.maxCtxK = args.model.max_context_k
  /\ ret.ramCtxK * args.model.kv_per_1k_gb + args.model.kv_per_1k_gb <= args.systemRamGB

\* ---- bucketModels: ctxInfo
\* The context that system RAM adds to what VRAM holds beside the weights of
\* model m is positive: VRAM alone stays below the ceiling and system RAM
\* holds at least 1K.
RamContributes(m) ==
  /\ args.systemRamGB # Null
  /\ m.kv_per_1k_gb > 0
  /\ args.vram > m.weight_gb
  /\ WholeKs(args.vram - m.weight_gb, m.kv_per_1k_gb) < m.max_context_k
  /\ WholeKs(args.systemRamGB, m.kv_per_1k_gb) > 0

\* C16: an entry has a ctxInfo iff the model passes the baseline fit (no
\* weight offload), systemRamGB is non-null and the system RAM contribution to
\* the context is positive; then ctxInfo.ramCtxK > 0 and
\* ctxInfo.vramCtxK + ctxInfo.ramCtxK = maxCtxK; offloadInfo and ctxInfo are
\* never both non-null.
C16_CtxInfoIff ==
  Returned("bucketModels") =>
    \A e \in AllEntries :
      /\ (e.ctxInfo # NullInfo) <=>
           /\ ~BaselineFails(ModelOf(e))
           /\ args.systemRamGB # Null
           /\ RamContributes(ModelOf(e))
      /\ (e.ctxInfo # NullInfo) =>
           /\ e.ctxInfo.ramCtxK > 0
           /\ e.ctxInfo.vramCtxK + e.ctxInfo.ramCtxK = e.maxCtxK
      /\ ~(e.offloadInfo # NullInfo /\ e.ctxInfo # NullInfo)

\* With system RAM: an entry with a ctxInfo, an offloaded entry beside it.
C16_Witness ==
  /\ Returned("bucketModels")
  /\ \E e \in AllEntries :
       e.ctxInfo # NullInfo /\ e.ctxInfo.vramCtxK > 0 /\ e.offloadInfo = NullInfo
  /\ \E e \in AllEntries : e.offloadInfo # NullInfo /\ e.ctxInfo = NullInfo

\* ---- bucketModels: order of the buckets
\* The selected benchmark score of an entry.
SelectedScore(e) == IF args.sortBy = "swe-bench" THEN SweScore(e) ELSE e.mmlu_score

\* Entry a may directly precede entry b in a bucket with tiebreak key `key`.
InOrder(a, b, key) ==
  /\ SelectedScore(a) = Null => SelectedScore(b) = Null
  /\ (SelectedScore(a) # Null /\ SelectedScore(b) # Null) =>
       SelectedScore(a) >= SelectedScore(b)
  /\ SelectedScore(a) = SelectedScore(b) => a[key] >= b[key]

Ordered(bucket, key) ==
  \A i \in 1..(Len(bucket) - 1) : InOrder(bucket[i], bucket[i + 1], key)

\* C17: in every bucket, of two consecutive entries a then b, a's selected
\* score is >= b's (in swe-bench mode an entry without a score never precedes
\* one with a score); with equal scores a.maxCtxK >= b.maxCtxK in fits and
\* tight, and a.weight_gb >= b.weight_gb in noFit.
C17_BucketsSorted ==
  Returned("bucketModels") =>
    /\ Ordered(ret.fits, "maxCtxK")
    /\ Ordered(ret.tight, "maxCtxK")
    /\ Ordered(ret.noFit, "weight_gb")

\* Two entries of equal score in one bucket that the tiebreak has put in the
\* reverse of the catalog's order.
C17_Witness ==
  /\ Returned("bucketModels")
  /\ Len(args.allModels) = 2
  /\ \E b \in {"fits", "tight", "noFit"} :
       /\ Len(ret[b]) = 2
       /\ SelectedScore(ret[b][1]) = SelectedScore(ret[b][2])
       /\ ModelOf(ret[b][1]) = args.allModels[2]
       /\ ModelOf(ret[b][2]) = args.allModels[1]
       /\ args.allModels[1] # args.allModels[2]

\* ---- bucketModels: unknown bandwidth
\* C18: with bandwidth unknown (null) every entry has tokPerSec unknown and
\* meetsMinSpeed true, and for every minTokPerSec the buckets are those
\* obtained with no speed requirement.
C18_UnknownBandwidthNoSpeedFilter ==
  (Returned("bucketModels") /\ args.bandwidth = Null) =>
    /\ \A e \in AllEntries : e.tokPerSec = Null /\ e.meetsMinSpeed
    /\ ret = bucketModels(args.allModels, args.vram, args.bandwidth, args.minContextK,
                          Null, args.requiredFeatures, args.sortBy, args.systemRamGB)

\* A speed requirement with unknown bandwidth, and a model in fits.
C18_Witness ==
  /\ Returned("bucketModels")
  /\ args.bandwidth = Null
  /\ args.minTokPerSec # Null
  /\ Len(ret.fits) > 0
  /\ \A e \in AllEntries : e.tokPerSec = Null

\* ---- calcTokPerSec
\* C19: calcTokPerSec returns unknown (null) iff bandwidth is null/undefined
\* (a bandwidth of 0 yields 0); otherwise the integer nearest to
\* bandwidth / (weight_gb + 1.0), a half rounded up.
C19_TokPerSecValue ==
  Returned("calcTokPerSec") =>
    LET q == args.model.weight_gb + GBUnits
        b == args.bandwidth * GBUnits
    IN  /\ (ret = Null) <=> (args.bandwidth = Null)
        /\ args.bandwidth = 0 => ret = 0
        /\ args.bandwidth # Null =>
             /\ (2 * ret - 1) * q <= 2 * b
             /\ 2 * b < (2 * ret + 1) * q

\* A quotient that ends in a half and is rounded up.
C19_Witness ==
  /\ Returned("calcTokPerSec")
  /\ args.bandwidth # Null
  /\ ret > 0
  /\ (2 * ret - 1) * (args.model.weight_gb + GBUnits) = 2 * args.bandwidth * GBUnits

\* ---- calcMultiGpuResources
\* The efficiency of n >= 2 GPUs, in percent.
EfficiencyPercent(n) == IF n = 2 THEN 85 ELSE IF n = 3 THEN 75 ELSE 70

LacksFeature(m) == ~(args.requiredFeatures \subseteq FeaturesOf(m))

\* The noFit bucket of the same call without required features.
NoFitWithoutFeatures ==
  bucketModels(args.allModels, args.vram, args.bandwidth, args.minContextK,
               args.minTokPerSec, {}, args.sortBy, args.systemRamGB).noFit

\* C21: meetsFeatures is true iff every required feature is among the model's
\* features (an absent list is empty; true when nothing is required); a model
\* that passes the baseline fit but lacks a required feature is never in
\* fits, is in noFit only if it is there without the requirement too, and is
\* in tight otherwise.
C21_FeatureMatch ==
  Returned("bucketModels") =>
    /\ \A e \in AllEntries :
         /\ e.meetsFeatures <=> (\A f \in args.requiredFeatures : f \in FeaturesOf(e))
         /\ args.requiredFeatures = {} => e.meetsFeatures
    /\ \A m \in CatalogModels :
         (~BaselineFails(m) /\ LacksFeature(m)) =>
           /\ ~InBucket(m, ret.fits)
           /\ InBucket(m, ret.noFit) <=> InBucket(m, NoFitWithoutFeatures)
           /\ ~InBucket(m, ret.noFit) => InBucket(m, ret.tight)

\* A model with one of the two required features, kept in tight by the
\* missing one alone: without the requirement it is in fits.
C21_Witness ==
  /\ Returned("bucketModels")
  /\ args.requiredFeatures # {}
  /\ \E m \in CatalogModels :
       /\ FeaturesOf(m) \cap args.requiredFeatures # {}
       /\ LacksFeature(m)
       /\ InBucket(m, ret.tight)
       /\ InBucket(m, bucketModels(<<m>>, args.vram, args.bandwidth, args.minContextK,
                                   args.minTokPerSec, {}, args.sortBy,
                                   args.systemRamGB).fits)

\* ---- bucketModels: the benchmark selector
OtherSortBy == IF args.sortBy = "swe-bench" THEN "mmlu" ELSE "swe-bench"

\* The result of the same call with the other selector.
WithOtherSortBy ==
  bucketModels(args.allModels, args.vram, args.bandwidth, args.minContextK,
               args.minTokPerSec, args.requiredFeatures, OtherSortBy, args.systemRamGB)

\* An entry without its tier.
WithoutTier(e) == [f \in DOMAIN e \ {"tier"} |-> e[f]]

\* The entries of a bucket, order and tier left aside.
Untiered(bucket) == {WithoutTier(bucket[i]) : i \in 1..Len(bucket)}

\* The two results hold the same entries, tier and order left aside.
SameUntiered(r, other) ==
  /\ Untiered(r.fits) = Untiered(other.fits)
  /\ Untiered(r.tight) = Untiered(other.tight)
  /\ Untiered(r.noFit) = Untiered(other.noFit)
  /\ Len(r.fits) = Len(other.fits)
  /\ Len(r.tight) = Len(other.tight)
  /\ Len(r.noFit) = Len(other.noFit)

\* C22: for a fixed catalog, vram, bandwidth, filters and system RAM, the
\* models of each bucket and every entry's maxCtxK and tokPerSec are the same
\* for sortBy 'mmlu' and 'swe-bench': the selector changes only the order
\* inside the buckets and the tier.
C22_SelectorOnlyOrdersAndTiers ==
  Returned("bucketModels") => SameUntiered(ret, WithOtherSortBy)

\* Bucket b holds two models that the other result holds in the reverse
\* order, with another tier.
Reordered(r, other, b) ==
  /\ Len(r[b]) = 2
  /\ ModelOf(r[b][1]) # ModelOf(r[b][2])
  /\ ModelOf(r[b][1]) = ModelOf(other[b][2])
  /\ r[b][1].tier # other[b][2].tier

\* A bucket of two models that the two selectors order differently.
C22_Witness ==
  /\ Returned("bucketModels")
  /\ Len(args.allModels) = 2
  /\ \E b \in {"fits", "tight", "noFit"} : Reordered(ret, WithOtherSortBy, b)

\* ---- bucketModels: the tier
\* The label of a general (MMLU) score and of a coding (SWE-bench) score.
GeneralLabel(score) ==
  CASE score >= 83 -> "Excellent"
    [] score >= 75 /\ score < 83 -> "Great"
    [] score >= 67 /\ score < 75 -> "Good"
    [] score >= 55 /\ score < 67 -> "Fair"
    [] score < 55 -> "Basic"

CodingLabel(score) ==
  CASE score = Null -> "N/A"
    [] score # Null /\ score >= 30 -> "Excellent"
    [] score >= 22 /\ score < 30 -> "Great"
    [] score >= 15 /\ score < 22 -> "Good"
    [] score >= 8 /\ score < 15 -> "Fair"
    [] score # Null /\ score < 8 -> "Basic"

\* The fixed style class of a label.
StyleClass(label) ==
  CASE label = "Excellent" -> "tier-excellent"
    [] label = "Great" -> "tier-great"
    [] label = "Good" -> "tier-good"
    [] label = "Fair" -> "tier-fair"
    [] label = "Basic" -> "tier-basic"
    [] label = "N/A" -> "tier-na"

\* C23: every entry's tier is that of the selected benchmark only: with
\* sortBy 'swe-bench' the coding tier of swe_bench_score (N/A when null or
\* absent; Excellent >= 30, Great >= 22, Good >= 15, Fair >= 8, else Basic),
\* otherwise the general tier of mmlu_score (Excellent >= 83, Great >= 75,
\* Good >= 67, Fair >= 55, else Basic); each label comes with its class.
C23_TierOfSelectedBenchmark ==
  Returned("bucketModels") =>
    \A e \in AllEntries :
      /\ e.tier.label =
           IF args.sortBy = "swe-bench"
             THEN CodingLabel(IF "swe_bench_score" \in DOMAIN e THEN e.swe_bench_score
                              ELSE Null)
             ELSE GeneralLabel(e.mmlu_score)
      /\ e.tier.cls = StyleClass(e.tier.label)
      /\ DOMAIN e.tier = {"label", "cls"}

\* With the coding selector, a coding score of exactly 30 beside a general
\* score below 55: the tier is Excellent.
C23_Witness ==
  /\ Returned("bucketModels")
  /\ args.sortBy = "swe-bench"
  /\ \E e \in AllEntries :
       /\ "swe_bench_score" \in DOMAIN e
       /\ e.swe_bench_score = 30
       /\ e.mmlu_score < 55
       /\ e.tier = [label |-> "Excellent", cls |-> "tier-excellent"]

\* ---- groupVariants
\* The number of occurrences of entry e in list s.
Occurrences(s, e) == Cardinality({i \in 1..Len(s) : s[i] = e})

\* The position of the first entry of the name in the input.
FirstAt(name) ==
  CHOOSE i \in 1..Len(args.models) :
    /\ args.models[i].name = name
    /\ \A j \in 1..(i - 1) : args.models[j].name # name

RECURSIVE VariantCount(_)
VariantCount(groups) ==
  IF Len(groups) = 0 THEN 0 ELSE Len(Head(groups).variants) + VariantCount(Tail(groups))

\* C24: groupVariants returns groups of pairwise distinct names, in the order
\* of each name's first occurrence in the input; every input entry is exactly
\* once in the variants of the group of its name, no other entry is in any
\* group, and the variant counts sum to the input length.
C24_GroupsPartitionInput ==
  Returned("groupVariants") =>
    /\ \A i, j \in 1..Len(ret) : i # j => ret[i].name # ret[j].name
    /\ {ret[i].name : i \in 1..Len(ret)} = {args.models[i].name : i \in 1..Len(args.models)}
    /\ \A i, j \in 1..Len(ret) : i < j => FirstAt(ret[i].name) < FirstAt(ret[j].name)
    /\ \A i \in 1..Len(ret) :
         \A e \in SeqRange(args.models) \cup SeqRange(ret[i].variants) :
           Occurrences(ret[i].variants, e) =
             IF e.name = ret[i].name THEN Occurrences(args.models, e) ELSE 0
    /\ VariantCount(ret) = Len(args.models)

\* Two groups, the first of two variants that the other model's entry
\* separates in the input.
C24_Witness ==
  /\ Returned("groupVariants")
  /\ Len(args.models) = 3
  /\ args.models[1].name = args.models[3].name
  /\ args.models[1].name # args.models[2].name
  /\ Len(ret) = 2
  /\ Len(ret[1].variants) = 2
  /\ ret[2].variants = <<args.models[2]>>

\* C25: in every group the variants are in non-decreasing weight_gb order,
\* and the group's params_b, tier, mmlu_score, swe_bench_score (null when
\* absent) and features are those of the variant that occurs first in the
\* input, even when it is not the lightest.
C25_VariantsSortedFirstSeenMeta ==
  Returned("groupVariants") =>
    \A i \in 1..Len(ret) :
      LET g == ret[i]
          first == args.models[FirstAt(g.name)]
      IN  /\ \A k \in 1..(Len(g.variants) - 1) :
               g.variants[k].weight_gb <= g.variants[k + 1].weight_gb
          /\ g.params_b = first.params_b
          /\ g.tier = first.tier
          /\ g.mmlu_score = first.mmlu_score
          /\ g.swe_bench_score =
               IF "swe_bench_score" \in DOMAIN first THEN first.swe_bench_score ELSE Null
          /\ g.features = IF "features" \in DOMAIN first THEN first.features ELSE {}

\* A group whose first-seen variant is heavier than a later one and differs
\* from it in score, coding score and features.
C25_Witness ==
  /\ Returned("groupVariants")
  /\ \E i \in 1..Len(ret) :
       /\ Len(ret[i].variants) >= 2
       /\ ret[i].variants[1] # args.models[FirstAt(ret[i].name)]
       /\ ret[i].variants[1].weight_gb < args.models[FirstAt(ret[i].name)].weight_gb
       /\ ret[i].variants[1].mmlu_score # ret[i].mmlu_score
       /\ ret[i].swe_bench_score = Null
       /\ ret[i].features = {}

\* ---- bucketModels: the buckets partition the catalog
\* The number of entries of model m in a bucket.
EntriesIn(bucket, m) == Cardinality({i \in 1..Len(bucket) : ModelOf(bucket[i]) = m})

\* The buckets that hold model m.
BucketsOf(m) == {b \in {"fits", "tight", "noFit"} : InBucket(m, ret[b])}

\* C26: for every catalog and every input, vram 0, kv_per_1k_gb 0, unknown
\* bandwidth, absent system RAM and absent coding score included, each catalog
\* model is in exactly one bucket, as often as it is in the catalog: the three
\* bucket lengths sum to the catalog length.
C26_BucketsPartitionCatalog ==
  Returned("bucketModels") =>
    /\ Len(ret.fits) + Len(ret.tight) + Len(ret.noFit) = Len(args.allModels)
    /\ \A e \in AllEntries : ModelOf(e) \in CatalogModels
    /\ \A m \in CatalogModels :
         /\ Cardinality(BucketsOf(m)) = 1
         /\ EntriesIn(ret.fits, m) + EntriesIn(ret.tight, m) + EntriesIn(ret.noFit, m)
              = Occurrences(args.allModels, m)

\* No VRAM, unknown bandwidth, no system RAM, the coding selector: a model
\* without KV cost and coding score and another model, both in noFit.
C26_Witness ==
  /\ Returned("bucketModels")
  /\ args.vram = 0 /\ args.bandwidth = Null /\ args.systemRamGB = Null
  /\ args.sortBy = "swe-bench"
  /\ Len(args.allModels) = 2
  /\ args.allModels[1] # args.allModels[2]
  /\ \E m \in CatalogModels : m.kv_per_1k_gb = 0 /\ "swe_bench_score" \notin DOMAIN m
  /\ Len(ret.noFit) = 2

\* ---- bucketModels: more memory
\* The entry of model m in the same call with another vram and system RAM.
EntryAt(m, vram, systemRamGB) ==
  Enrich(m, vram, args.bandwidth, args.minContextK, args.minTokPerSec,
         args.requiredFeatures, args.sortBy, systemRamGB)

\* The order of the buckets: noFit < tight < fits.
Rank(bucket) == CASE bucket = "noFit" -> 0 [] bucket = "tight" -> 1 [] bucket = "fits" -> 2

\* The rank of the bucket of model m in the result.
RankOf(m) == Rank(CHOOSE b \in {"fits", "tight", "noFit"} : InBucket(m, ret[b]))

\* C27 as stated: for a fixed model, system RAM, bandwidth, filters and
\* selector, raising vram never moves the model to a worse bucket.  Violated
\* by the code: a model with kv_per_1k_gb > 1.0 that is offloaded (tight) at
\* vram v is in noFit at a v' > v where weight_gb + 1.0 <= v' <
\* weight_gb + kv_per_1k_gb, the plan having nothing left to offload.
C27_MoreVramNeverWorse ==
  Returned("bucketModels") =>
    \A m \in CatalogModels :
      \A v2 \in VramValues :
        v2 > args.vram => Rank(BucketOf(EntryAt(m, v2, args.systemRamGB))) >= RankOf(m)

\* The rank of the bucket that holds entry e in the result.
RankIn(e) ==
  IF e \in SeqRange(ret.fits) THEN 2 ELSE IF e \in SeqRange(ret.tight) THEN 1 ELSE 0

\* Entry `other` of the model of e is in no worse a bucket than e is in the
\* result, with no less context.
NotWorse(e, other) ==
  /\ Rank(BucketOf(other)) >= RankIn(e)
  /\ other.maxCtxK >= e.maxCtxK

\* System RAM values in the order none, then by size.
MoreSystemRam(s1, s2) == s2 # Null /\ (s1 = Null \/ s1 < s2)

\* C28: for a fixed model, vram, bandwidth, filters and selector, supplying
\* system RAM instead of none, or a larger system RAM, never moves the model
\* to a worse bucket and never lowers its maxCtxK.
C28_MoreSystemRamNeverWorse ==
  Returned("bucketModels") =>
    \A e \in AllEntries :
      \A s2 \in SystemRamValues :
        MoreSystemRam(args.systemRamGB, s2) =>
          NotWorse(e, EntryAt(ModelOf(e), args.vram, s2))

\* Without system RAM one model is in noFit and another has less than its
\* full context; the largest system RAM moves the first to tight and raises
\* the context of the second.
C28_Witness ==
  /\ Returned("bucketModels")
  /\ args.systemRamGB = Null
  /\ \E e \in SeqRange(ret.noFit) :
       BucketOf(EntryAt(ModelOf(e), args.vram, MaxSystemRam)) = "tight"
  /\ \E e \in SeqRange(ret.tight) \cup SeqRange(ret.fits) :
       EntryAt(ModelOf(e), args.vram, MaxSystemRam).maxCtxK > e.maxCtxK

HandlerDone == fn = "GpuInput" /\ pc = "mounted"

\* C30: in every state of the GpuInput component after mount and after any
\* sequence of GPU-select, memory-select, manual-VRAM and quantity-input
\* events, the unit count applyMultiGpu passes to calcMultiGpuResources is an
\* integer from 1 to 8, and vram/bandwidth are null when no base VRAM is set
\* and otherwise equal calcMultiGpuResources(baseVram, baseBandwidth,
\* gpuQuantity).
C30_QuantityClampedAndApplied ==
  HandlerDone =>
    /\ gpuInput.call # <<>> => gpuInput.call[3] \in 1..8
    /\ IF gpuInput.baseVram = Null
       THEN gpuInput.vram = Null /\ gpuInput.bandwidth = Null
       ELSE /\ gpuInput.vram = calcMultiGpuResources(gpuInput.baseVram, gpuInput.baseBandwidth, gpuInput.gpuQuantity).vram
            /\ gpuInput.bandwidth = calcMultiGpuResources(gpuInput.baseVram, gpuInput.baseBandwidth, gpuInput.gpuQuantity).bandwidth

====
